---- MODULE Spec2Model ----
(***************************************************************************)
(* NXOBot (src/src/index.js): the routing table kept in config.json, the   *)
(* slash commands that write it, and the two webhook endpoints that         *)
(* dispatch marketplace events to Discord channels.                         *)
(*                                                                          *)
(* A webhook handler is an async function: it runs synchronously up to its  *)
(* next await of a gateway call (channels.fetch, send, threads.create,      *)
(* members.add).  One action of this module is one such synchronous         *)
(* segment; the outcome of the awaited call is chosen by the environment.   *)
(* Slash commands touch the table synchronously and are single actions.     *)
(***************************************************************************)
EXTENDS Naturals, Sequences, FiniteSets

VARIABLES
  config,     \* contents of config.json: the guild records, in key order
  secret,     \* TRUE iff WEBHOOK_SECRET is set in the environment
  req,        \* per webhook request: its inputs, locals, position and response
  cmds,       \* number of slash commands handled so far
  reply,      \* the reply to the last slash command
  threadSeq,  \* number of threads created on the platform so far
  handlers,   \* per interaction being handled concurrently: its command,
              \* what it wrote and the await its handler is suspended at
  file,       \* what config.json holds: a table (config), nothing readable
              \* as one, or JSON that is no object
  embed       \* the message built last: its payload, the clock and the fields

vars == <<config, secret, req, cmds, reply, threadSeq, handlers, file, embed>>

----------------------------------------------------------------------------
(* Bounds and domains *)

MaxCmds == 2

MaxServeCmds == 1

NULL == "null"

Guilds == {"G1", "G2", "G3"}

Categories == {"wos_accounts", "pubg_accounts"}

ChannelsOf(g) ==
  IF g = "G1" THEN {"A1", "A2"}
  ELSE IF g = "G2" THEN {"B1", "B2"}
  ELSE {"C1", "C2"}

Channels == UNION {ChannelsOf(g) : g \in Guilds}

Reqs == {"r1", "r2"}

SeqReqs == {"r1"}

Interactions == {"i1", "i2"}

EventTypes ==
  {"listing.created", "listing.updated", "listing.status_changed",
   "dispute.created", "dispute.updated", "dispute.resolved"}

NoCategoryChannels == [c \in Categories |-> NULL]

\* config.json holds a table, does not exist, cannot be read, is not JSON, or
\* is the JSON value null
FileKinds == {"table", "missing", "unreadable", "invalid", "null"}

----------------------------------------------------------------------------
(* The routing table *)

\* loadConfig(): the parsed file; without a file, and when reading or parsing
\* it throws, it returns {} (config is empty whenever file is not a table)
loadConfig == config

\* loadConfig() returned null: JSON.parse accepted the file, and the first
\* config[guildId] or Object.entries(config) on it throws a TypeError
Unusable == file = "null"

\* saveConfig(config) wrote the table: the file holds a table from then on
Saved == file' = IF config' = config THEN file ELSE "table"

\* position of a guild's record among the keys of the table, 0 when absent
IndexOf(cfg, guildId) ==
  IF \E i \in 1..Len(cfg) : cfg[i].guildId = guildId
    THEN CHOOSE i \in 1..Len(cfg) : cfg[i].guildId = guildId
    ELSE 0

HasGuild(cfg, guildId) == IndexOf(cfg, guildId) # 0

\* config[guildId].categoryChannels[category], NULL when any link is missing
CategoryEntry(cfg, guildId, category) ==
  IF HasGuild(cfg, guildId) /\ category \in Categories
    THEN cfg[IndexOf(cfg, guildId)].categoryChannels[category]
    ELSE NULL

\* config[guildId].channelId, NULL when missing
GeneralEntry(cfg, guildId) ==
  IF HasGuild(cfg, guildId) THEN cfg[IndexOf(cfg, guildId)].channelId ELSE NULL

\* getChannelId without its last line's fallback: a category lookup reads
\* the category map alone
getChannelIdStrict(cfg, guildId, category) ==
  IF ~HasGuild(cfg, guildId) THEN NULL
  ELSE IF category # NULL THEN CategoryEntry(cfg, guildId, category)
  ELSE GeneralEntry(cfg, guildId)

\* getChannelId with its two returns swapped: the general channel wins over
\* the category's
getChannelIdGeneralFirst(cfg, guildId, category) ==
  IF ~HasGuild(cfg, guildId) THEN NULL
  ELSE IF GeneralEntry(cfg, guildId) # NULL THEN GeneralEntry(cfg, guildId)
  ELSE IF category # NULL THEN CategoryEntry(cfg, guildId, category)
  ELSE NULL

\* getChannelId(guildId, category) on the table cfg
getChannelId(cfg, guildId, category) ==
  IF ~HasGuild(cfg, guildId) THEN NULL
  ELSE IF category # NULL /\ CategoryEntry(cfg, guildId, category) # NULL
    THEN CategoryEntry(cfg, guildId, category)
  ELSE GeneralEntry(cfg, guildId)

\* setChannelId starting the guild's record afresh on every call
\* (config[guildId] = {} without the test before it)
setChannelIdFreshRecord(cfg, guildId, channelId, category) ==
  LET fresh == [guildId |-> guildId, channelId |-> NULL,
                categoryChannels |-> NoCategoryChannels]
      c1    == IF HasGuild(cfg, guildId)
                 THEN [cfg EXCEPT ![IndexOf(cfg, guildId)] = fresh]
                 ELSE Append(cfg, fresh)
      i     == IndexOf(c1, guildId)
  IN IF category # NULL
       THEN [c1 EXCEPT ![i].categoryChannels[category] = channelId]
       ELSE [c1 EXCEPT ![i].channelId = channelId]

\* setChannelId(guildId, channelId, category), before saveConfig
setChannelId(cfg, guildId, channelId, category) ==
  LET c1 == IF HasGuild(cfg, guildId) THEN cfg
            ELSE Append(cfg, [guildId |-> guildId, channelId |-> NULL,
                              categoryChannels |-> NoCategoryChannels])
      i  == IndexOf(c1, guildId)
  IN IF category # NULL
       THEN [c1 EXCEPT ![i].categoryChannels[category] = channelId]
       ELSE [c1 EXCEPT ![i].channelId = channelId]

\* delete config[guildId]
DeleteGuild(cfg, guildId) ==
  SelectSeq(cfg, LAMBDA e : e.guildId # guildId)

----------------------------------------------------------------------------
(* Slash commands (client.on('interactionCreate')) *)

NoReply == [cmd |-> "none", guildId |-> NULL, category |-> NULL,
            channelId |-> NULL, ok |-> FALSE, threw |-> FALSE]

\* the handler threw before it replied: the interaction gets no reply
Threw(cmd, guildId, category) ==
  [cmd |-> cmd, guildId |-> guildId, category |-> category,
   channelId |-> NULL, ok |-> FALSE, threw |-> TRUE]

\* /setchannel calling setChannelId before it checks the permission
SetChannelWriteFirst(guildId, channelId, category, hasChannel, permitted, saved) ==
  /\ cmds < MaxCmds
  /\ cmds' = cmds + 1
  /\ IF ~hasChannel
       THEN /\ config' = config
            /\ reply' = [cmd |-> "setchannel", guildId |-> guildId,
                         category |-> category, channelId |-> NULL, ok |-> FALSE,
                         threw |-> FALSE]
       ELSE IF Unusable
         THEN /\ config' = config
              /\ reply' = Threw("setchannel", guildId, category)
       ELSE /\ config' = IF saved
                           THEN setChannelId(loadConfig, guildId, channelId, category)
                           ELSE config
            /\ reply' = [cmd |-> "setchannel", guildId |-> guildId,
                         category |-> category,
                         channelId |-> IF permitted THEN channelId ELSE NULL,
                         ok |-> permitted, threw |-> FALSE]
  /\ Saved
  /\ UNCHANGED <<secret, req, threadSeq, handlers, embed>>

\* /setchannel: the channel option and the permission check, then
\* setChannelId; saveConfig's result is ignored, so a failed write leaves the
\* file as it was and the command still replies with the confirmation.
SetChannel(guildId, channelId, category, hasChannel, permitted, saved) ==
  /\ cmds < MaxCmds
  /\ cmds' = cmds + 1
  /\ IF ~hasChannel \/ ~permitted
       THEN /\ config' = config
            /\ reply' = [cmd |-> "setchannel", guildId |-> guildId,
                         category |-> category, channelId |-> NULL, ok |-> FALSE, threw |-> FALSE]
       ELSE IF Unusable
         THEN /\ config' = config
              /\ reply' = Threw("setchannel", guildId, category)
       ELSE /\ config' = IF saved
                           THEN setChannelId(loadConfig, guildId, channelId, category)
                           ELSE config
            /\ reply' = [cmd |-> "setchannel", guildId |-> guildId,
                         category |-> category, channelId |-> channelId,
                         ok |-> TRUE, threw |-> FALSE]
  /\ Saved
  /\ UNCHANGED <<secret, req, threadSeq, handlers, embed>>

\* /getchannel creating the record of a guild that has none, as setChannelId
\* does before it writes
GetChannelCreating(guildId, category) ==
  /\ cmds < MaxCmds
  /\ cmds' = cmds + 1
  /\ LET channelId == getChannelId(loadConfig, guildId, category)
     IN reply' = IF Unusable THEN Threw("getchannel", guildId, category)
                 ELSE [cmd |-> "getchannel", guildId |-> guildId,
                       category |-> category, channelId |-> channelId,
                       ok |-> channelId # NULL, threw |-> FALSE]
  /\ config' = IF Unusable \/ HasGuild(loadConfig, guildId) THEN config
               ELSE Append(config, [guildId |-> guildId, channelId |-> NULL,
                                    categoryChannels |-> NoCategoryChannels])
  /\ Saved
  /\ UNCHANGED <<secret, req, threadSeq, handlers, embed>>

\* /getchannel: replies with getChannelId(guildId, category)
GetChannel(guildId, category) ==
  /\ cmds < MaxCmds
  /\ cmds' = cmds + 1
  /\ LET channelId == getChannelId(loadConfig, guildId, category)
     IN reply' = IF Unusable THEN Threw("getchannel", guildId, category)
                 ELSE [cmd |-> "getchannel", guildId |-> guildId,
                       category |-> category, channelId |-> channelId,
                       ok |-> channelId # NULL, threw |-> FALSE]
  /\ UNCHANGED <<config, secret, req, threadSeq, handlers, file, embed>>

\* /removechannel with a category: deletes that entry of the category map
RemoveCategoryChannel(guildId, category, saved) ==
  /\ cmds < MaxCmds
  /\ category # NULL
  /\ cmds' = cmds + 1
  /\ IF Unusable
       THEN /\ config' = config
            /\ reply' = Threw("removechannel", guildId, category)
     ELSE IF CategoryEntry(loadConfig, guildId, category) = NULL
       THEN /\ config' = config
            /\ reply' = [cmd |-> "removechannel", guildId |-> guildId,
                         category |-> category, channelId |-> NULL, ok |-> FALSE, threw |-> FALSE]
       ELSE /\ config' =
                 IF saved
                   THEN [config EXCEPT
                           ![IndexOf(config, guildId)].categoryChannels[category] = NULL]
                   ELSE config
            /\ reply' = [cmd |-> "removechannel", guildId |-> guildId,
                         category |-> category, channelId |-> NULL,
                         ok |-> TRUE, threw |-> FALSE]
  /\ Saved
  /\ UNCHANGED <<secret, req, threadSeq, handlers, embed>>

\* /removechannel without a category: deletes the guild's whole record
RemoveChannel(guildId, saved) ==
  /\ cmds < MaxCmds
  /\ cmds' = cmds + 1
  /\ IF Unusable
       THEN /\ config' = config
            /\ reply' = Threw("removechannel", guildId, NULL)
     ELSE IF HasGuild(loadConfig, guildId)
       THEN /\ config' = IF saved THEN DeleteGuild(config, guildId) ELSE config
            /\ reply' = [cmd |-> "removechannel", guildId |-> guildId,
                         category |-> NULL, channelId |-> NULL, ok |-> TRUE, threw |-> FALSE]
       ELSE /\ config' = config
            /\ reply' = [cmd |-> "removechannel", guildId |-> guildId,
                         category |-> NULL, channelId |-> NULL, ok |-> FALSE, threw |-> FALSE]
  /\ Saved
  /\ UNCHANGED <<secret, req, threadSeq, handlers, embed>>

----------------------------------------------------------------------------
(* Slash commands handled concurrently: the handler of an interaction runs
   synchronously up to its first await, and other interactions are handled
   while it is suspended *)

IdleHandler ==
  [pc |-> "idle", cmd |-> "none", guildId |-> NULL, category |-> NULL,
   channelId |-> NULL, wrote |-> FALSE, seq |-> 0]

\* the record of interaction p's handler once its synchronous segment has run
\* as the (cmds + 1)-th one: wrote tells whether it saved the table
Started(p, cmd, guildId, category, channelId, wrote, pc) ==
  [handlers EXCEPT ![p] =
     [pc |-> pc, cmd |-> cmd, guildId |-> guildId, category |-> category,
      channelId |-> channelId, wrote |-> wrote, seq |-> cmds + 1]]

\* /setchannel up to its first await: the two refusals, else setChannelId
\* (load, modify and save without an await in between) and the confirmation
SetChannelBegin(p, guildId, channelId, category, hasChannel, permitted, saved) ==
  /\ handlers[p].pc = "idle"
  /\ cmds < MaxCmds
  /\ cmds' = cmds + 1
  /\ LET refused == ~hasChannel \/ ~permitted
         threw   == ~refused /\ Unusable
         wrote   == ~refused /\ ~threw /\ saved
     IN /\ config' = IF wrote
                       THEN setChannelId(loadConfig, guildId, channelId, category)
                       ELSE config
        /\ reply' = IF threw THEN Threw("setchannel", guildId, category)
                    ELSE [cmd |-> "setchannel", guildId |-> guildId,
                          category |-> category,
                          channelId |-> IF refused THEN NULL ELSE channelId,
                          ok |-> ~refused, threw |-> FALSE]
        /\ handlers' = Started(p, "setchannel", guildId, category, channelId, wrote,
                               IF threw THEN "done"
                               ELSE IF refused THEN "replyLast" ELSE "reply")
  /\ Saved
  /\ UNCHANGED <<secret, req, threadSeq, embed>>

\* /getchannel up to its first await: without a channel it replies, with one
\* it fetches the channel before replying
GetChannelBegin(p, guildId, category) ==
  /\ handlers[p].pc = "idle"
  /\ cmds < MaxCmds
  /\ cmds' = cmds + 1
  /\ LET channelId == getChannelId(loadConfig, guildId, category)
     IN /\ reply' = IF Unusable THEN Threw("getchannel", guildId, category)
                    ELSE [cmd |-> "getchannel", guildId |-> guildId,
                          category |-> category, channelId |-> channelId,
                          ok |-> channelId # NULL, threw |-> FALSE]
        /\ handlers' = Started(p, "getchannel", guildId, category, channelId, FALSE,
                               IF Unusable THEN "done"
                               ELSE IF channelId = NULL THEN "replyLast"
                               ELSE "fetch")
  /\ UNCHANGED <<config, secret, req, threadSeq, file, embed>>

\* /removechannel up to its first await: loadConfig, the delete and
\* saveConfig follow each other without an await
RemoveChannelBegin(p, guildId, category, saved) ==
  /\ handlers[p].pc = "idle"
  /\ cmds < MaxCmds
  /\ cmds' = cmds + 1
  /\ LET found == IF category # NULL
                    THEN CategoryEntry(loadConfig, guildId, category) # NULL
                    ELSE HasGuild(loadConfig, guildId)
         wrote == found /\ ~Unusable /\ saved
     IN /\ config' =
             IF ~wrote THEN config
             ELSE IF category # NULL
               THEN [config EXCEPT
                       ![IndexOf(config, guildId)].categoryChannels[category] = NULL]
             ELSE DeleteGuild(config, guildId)
        /\ reply' = IF Unusable THEN Threw("removechannel", guildId, category)
                    ELSE [cmd |-> "removechannel", guildId |-> guildId,
                          category |-> category, channelId |-> NULL,
                          ok |-> found, threw |-> FALSE]
        /\ handlers' = Started(p, "removechannel", guildId, category, NULL, wrote,
                               IF Unusable THEN "done" ELSE "replyLast")
  /\ Saved
  /\ UNCHANGED <<secret, req, threadSeq, embed>>

\* await client.channels.fetch(channelId) of /getchannel returns or fails:
\* either way the handler replies
FetchChannelDone(p, ok) ==
  /\ handlers[p].pc = "fetch"
  /\ handlers' = [handlers EXCEPT ![p].pc = "replyLast"]
  /\ UNCHANGED <<config, secret, req, cmds, reply, threadSeq, file, embed>>

\* await interaction.reply(...) returns or fails: /setchannel goes on to its
\* test message, the other handlers end (a failed reply ends them all)
ReplyDone(p, ok) ==
  /\ handlers[p].pc \in {"reply", "replyLast"}
  /\ handlers' = [handlers EXCEPT ![p].pc =
                    IF handlers[p].pc = "reply" /\ ok THEN "test" ELSE "done"]
  /\ UNCHANGED <<config, secret, req, cmds, reply, threadSeq, file, embed>>

\* await targetChannel.send(...) of /setchannel returns or fails (logged)
TestSendDone(p, ok) ==
  /\ handlers[p].pc = "test"
  /\ handlers' = [handlers EXCEPT ![p].pc = "done"]
  /\ UNCHANGED <<config, secret, req, cmds, reply, threadSeq, file, embed>>

----------------------------------------------------------------------------
(* The messages built from a payload *)

\* A text is the sequence of its characters. A payload field is a JSON value:
\* absent, a number (given by its decimal print) or a string.
Digits == <<"0", "1", "2", "3", "4", "5", "6", "7", "8", "9">>

IsDigit(c) == \E d \in 1..Len(Digits) : Digits[d] = c

DigitValue(c) == (CHOOSE d \in 1..Len(Digits) : Digits[d] = c) - 1

Absent == [type |-> "absent", text |-> << >>]

Num(t) == [type |-> "number", text |-> t]

Str(t) == [type |-> "string", text |-> t]

\* !v of JavaScript: absent, the number 0 and the empty string are falsy
Falsy(v) ==
  \/ v.type = "absent"
  \/ v.type = "number" /\ v.text = <<"0">>
  \/ v.type = "string" /\ v.text = << >>

\* the number of decimal digits s holds from position i on
RECURSIVE DigitRun(_, _)
DigitRun(s, i) ==
  IF i <= Len(s) /\ IsDigit(s[i]) THEN 1 + DigitRun(s, i + 1) ELSE 0

\* the value of a string of decimal digits
RECURSIVE NatValue(_)
NatValue(s) ==
  IF s = << >> THEN 0
  ELSE 10 * NatValue(SubSeq(s, 1, Len(s) - 1)) + DigitValue(s[Len(s)])

\* the decimal print of a natural number
RECURSIVE NatText(_)
NatText(n) ==
  IF n < 10 THEN <<Digits[n + 1]>>
  ELSE NatText(n \div 10) \o <<Digits[(n % 10) + 1]>>

\* parseFloat(text): the value of the longest prefix that is an unsigned
\* decimal literal, NaN when there is none
parseFloat(s) ==
  LET n1 == DigitRun(s, 1)
      dot == n1 < Len(s) /\ s[n1 + 1] = "."
      n2 == IF dot THEN DigitRun(s, n1 + 2) ELSE 0
  IN IF n1 + n2 = 0
       THEN [nan |-> TRUE, int |-> << >>, frac |-> << >>]
       ELSE [nan |-> FALSE, int |-> SubSeq(s, 1, n1),
             frac |-> SubSeq(s, n1 + 2, n1 + 1 + n2)]

\* number.toFixed(2) of a value that has at most three decimals
toFixed(v) ==
  IF v.nan THEN <<"N", "a", "N">>
  ELSE LET f == v.frac \o <<"0", "0", "0">>
           cents == NatValue(v.int) * 100 + NatValue(SubSeq(f, 1, 2))
                      + (IF DigitValue(f[3]) >= 5 THEN 1 ELSE 0)
       IN NatText(cents \div 100) \o <<".">>
            \o <<Digits[((cents % 100) \div 10) + 1], Digits[(cents % 10) + 1]>>

\* the price as it was sent, without parseFloat and toFixed
PriceFieldRaw(price) == <<"$">> \o price.text

\* `$${parseFloat(price).toFixed(2)}`
PriceField(price) == <<"$">> \o toFixed(parseFloat(price.text))

\* a cut after 1000 characters instead of 997
TruncatedLate(description) ==
  IF Len(description) > 1000
    THEN SubSeq(description, 1, 1000) \o <<".", ".", ".">>
    ELSE description

\* description.length > 1000 ? description.substring(0, 997) + '...' : description
Truncated(description) ==
  IF Len(description) > 1000
    THEN SubSeq(description, 1, 997) \o <<".", ".", ".">>
    ELSE description

\* the description field of a listing message: added only if (description)
DescriptionField(description) ==
  IF Falsy(description) THEN Absent ELSE Str(Truncated(description.text))

\* the listing message of handleListingCreated ("unified") and of
\* app.post('/webhook/listing') ("legacy"); now is the clock when it is built
ListingEmbed(path, listing, now) ==
  [price |-> IF path = "unified"
               THEN PriceField(IF Falsy(listing.price) THEN Num(<<"0">>)
                               ELSE listing.price)
               ELSE PriceField(listing.price),
   category |-> IF path = "unified" THEN listing.category
                ELSE IF listing.category = NULL THEN "N/A" ELSE listing.category,
   description |-> DescriptionField(listing.description),
   color |-> "0x00AE86",
   timestamp |-> IF listing.created_at = NULL THEN now ELSE listing.created_at]

\* addFields of the embed builder rejects a field whose value is no string
Accepted(message) == message.category # NULL

getCategoryName(category) ==
  IF category = "wos_accounts" THEN "Whiteout Survival"
  ELSE IF category = "pubg_accounts" THEN "PUBG Mobile"
  ELSE category

\* the message handleDisputeCreated sends into the thread
DisputeCreatedEmbed(dispute, now) ==
  [party |-> IF dispute.party = "buyer" THEN "Buyer" ELSE "Seller",
   category |-> IF dispute.category = NULL THEN "N/A"
                ELSE getCategoryName(dispute.category),
   buyer |-> IF dispute.buyer THEN "mention" ELSE "Not connected",
   seller |-> IF dispute.seller THEN "mention" ELSE "Not connected",
   color |-> "0xFF6B6B",
   timestamp |-> IF dispute.created_at = NULL THEN now ELSE dispute.created_at]

\* the message handleDisputeResolved posts
DisputeResolvedEmbed(dispute, now) ==
  [resolution |-> IF dispute.resolution = NULL THEN "N/A" ELSE dispute.resolution,
   resolvedBy |-> IF dispute.resolver_username = NULL THEN "Admin"
                  ELSE dispute.resolver_username,
   color |-> "0x51CF66",
   timestamp |-> IF dispute.resolved_at = NULL THEN now ELSE dispute.resolved_at]

\* no message has been built yet
NoEmbed ==
  [kind |-> "none", path |-> "none", payload |-> [none |-> TRUE], now |-> "t1",
   formatted |-> FALSE, built |-> FALSE, msg |-> [none |-> TRUE]]

----------------------------------------------------------------------------
(* Webhook requests *)

IdleReq ==
  [pc |-> "idle", endpoint |-> "webhook", parseable |-> TRUE, authOk |-> TRUE,
   event_type |-> NULL, hasData |-> FALSE, category |-> NULL, fieldsOk |-> FALSE,
   buyer |-> FALSE, seller |-> FALSE, thread_id |-> NULL,
   epoch |-> 0, snap |-> << >>, idx |-> 0, chan |-> NULL, thread |-> 0,
   addFailed |-> FALSE, adds |-> << >>, messages |-> << >>,
   sentCount |-> 0, errors |-> << >>,
   attempts |-> << >>, outcomes |-> << >>, threads |-> << >>, reads |-> 0,
   status |-> 0, success |-> FALSE, sentTo |-> 0, respErrors |-> << >>,
   errorMsg |-> FALSE, result |-> << >>, configuredChannels |-> 0,
   responses |-> 0]

\* the handler a request is routed to
Handler(rec) ==
  IF rec.endpoint = "legacy" THEN "legacy"
  ELSE IF rec.event_type = "listing.created" THEN "listing"
  ELSE IF rec.event_type = "dispute.created" THEN "disputeCreated"
  ELSE IF rec.event_type = "dispute.resolved" THEN "disputeResolved"
  ELSE "none"

\* res.status(code).json(...) of a response without success: true
Reject(rec, code) ==
  [rec EXCEPT !.pc = "done", !.status = code, !.success = FALSE,
              !.errorMsg = TRUE, !.responses = @ + 1]

\* res.json({ success: true, event_type, result? }) of /webhook
RespondSuccess(rec) ==
  [rec EXCEPT !.pc = "done", !.status = 200, !.success = TRUE,
              !.responses = @ + 1]

\* the tail of /webhook/listing answering 500 as soon as any send failed
RespondLegacyAnyError(rec) ==
  IF rec.errors # << >>
    THEN [rec EXCEPT !.pc = "done", !.status = 500, !.success = FALSE,
                     !.errorMsg = TRUE, !.respErrors = rec.errors,
                     !.responses = @ + 1]
    ELSE [rec EXCEPT !.pc = "done", !.status = 200, !.success = TRUE,
                     !.sentTo = rec.sentCount, !.respErrors = rec.errors,
                     !.responses = @ + 1]

\* the tail of /webhook/listing with sentCount declared outside the route:
\* the sends of the requests that ended before are counted too
RespondLegacySharedCount(rec) ==
  LET others == {q \in Reqs : req[q].pc = "done" /\ Handler(req[q]) = "legacy"}
      shared == rec.sentCount + (IF others = {} THEN 0
                                 ELSE LET q == CHOOSE q \in others : TRUE
                                      IN req[q].sentCount)
  IN IF shared = 0 /\ Len(rec.snap) > 0
       THEN [rec EXCEPT !.pc = "done", !.status = 500, !.success = FALSE,
                        !.errorMsg = TRUE, !.respErrors = rec.errors,
                        !.responses = @ + 1]
       ELSE [rec EXCEPT !.pc = "done", !.status = 200, !.success = TRUE,
                        !.sentTo = shared, !.respErrors = rec.errors,
                        !.responses = @ + 1]

\* the tail of /webhook/listing once its loop has ended
RespondLegacy(rec) ==
  IF rec.sentCount = 0 /\ Len(rec.snap) > 0
    THEN [rec EXCEPT !.pc = "done", !.status = 500, !.success = FALSE,
                     !.errorMsg = TRUE, !.respErrors = rec.errors,
                     !.responses = @ + 1]
    ELSE [rec EXCEPT !.pc = "done", !.status = 200, !.success = TRUE,
                     !.sentTo = rec.sentCount, !.respErrors = rec.errors,
                     !.responses = @ + 1]

\* the channel the loop body of rec's handler resolves for entry j of the
\* table it iterates: the legacy endpoint and handleDisputeResolved read
\* guildConfig.channelId of the snapshot, handleListingCreated and
\* handleDisputeCreated call getChannelId, which loads the file again
Target(rec, j) ==
  IF Handler(rec) \in {"legacy", "disputeResolved"}
    THEN rec.snap[j].channelId
    ELSE getChannelId(loadConfig, rec.snap[j].guildId, rec.category)

\* first entry at or after i whose channel is set (the others `continue`)
NextIndex(rec, i) ==
  IF \E j \in i..Len(rec.snap) : Target(rec, j) # NULL
    THEN CHOOSE j \in i..Len(rec.snap) :
           /\ Target(rec, j) # NULL
           /\ \A k \in i..(j - 1) : Target(rec, k) = NULL
    ELSE 0

\* a handler that returns without calling res.json: the request stays open
FinishPending(rec) == [rec EXCEPT !.pc = "pending"]

\* the response once the loop of rec's handler has run off the table
Finish(rec) ==
  IF Handler(rec) = "legacy" THEN RespondLegacy(rec) ELSE RespondSuccess(rec)

\* the for loop leaving (a `break` or `return`) once one target was tried
ContinueStopAtFirst(rec, i) ==
  LET j      == IF rec.attempts # << >> THEN 0 ELSE NextIndex(rec, i)
      last   == IF j = 0 THEN Len(rec.snap) ELSE j
      looked == IF Handler(rec) \in {"listing", "disputeCreated"} /\ last >= i
                  THEN last - i + 1 ELSE 0
      r1     == [rec EXCEPT !.reads = @ + looked]
  IN IF j = 0
       THEN Finish(r1)
       ELSE [r1 EXCEPT !.pc = "fetch", !.idx = j, !.chan = Target(rec, j),
               !.attempts = Append(@, [guildId |-> rec.snap[j].guildId,
                                       channelId |-> Target(rec, j)])]

\* the for loop from entry i on, up to its next await: entries without a
\* channel are skipped, the first one with a channel starts
\* client.channels.fetch(channelId); with none left the handler returns
Continue(rec, i) ==
  LET j      == NextIndex(rec, i)
      last   == IF j = 0 THEN Len(rec.snap) ELSE j
      looked == IF Handler(rec) \in {"listing", "disputeCreated"} /\ last >= i
                  THEN last - i + 1 ELSE 0
      r1     == [rec EXCEPT !.reads = @ + looked]
  IN IF j = 0
       THEN Finish(r1)
       ELSE [r1 EXCEPT !.pc = "fetch", !.idx = j, !.chan = Target(rec, j),
               !.attempts = Append(@, [guildId |-> rec.snap[j].guildId,
                                       channelId |-> Target(rec, j)])]

\* the handler called without await: the route answers at once while the
\* loop is still running
StartLoopDetached(rec) ==
  IF Unusable
    THEN Reject([rec EXCEPT !.reads = @ + 1], 500)
    ELSE LET r1 == Continue([rec EXCEPT !.snap = loadConfig, !.reads = @ + 1], 1)
         IN IF r1.pc = "done" THEN r1
            ELSE [r1 EXCEPT !.status = 200, !.success = TRUE, !.responses = @ + 1]

\* const config = loadConfig() at the head of a handler, then its loop.
\* On null Object.entries(config) throws before the first iteration: the
\* catch of the endpoint answers 500
StartLoop(rec) ==
  IF Unusable
    THEN Reject([rec EXCEPT !.reads = @ + 1], 500)
    ELSE Continue([rec EXCEPT !.snap = loadConfig, !.reads = @ + 1], 1)

----------------------------------------------------------------------------
(* The request inputs that are enumerated *)

ReqCategories == {NULL, "wos_accounts"}

ReqEventTypes == EventTypes \cup {"unknown.event", NULL}

\* the inputs of a request; the fields a path never reads are held fixed.
\* epoch (in the request record) is the number of slash commands handled
\* before the request arrived: the table a dispatch sees is the one it loaded
\* for as long as cmds = epoch
ReqInputs ==
  {i \in [endpoint : {"webhook", "legacy"}, parseable : BOOLEAN, authOk : BOOLEAN,
          event_type : ReqEventTypes, hasData : BOOLEAN,
          category : ReqCategories, fieldsOk : BOOLEAN,
          buyer : BOOLEAN, seller : BOOLEAN, thread_id : {NULL, "T1"}] :
     /\ i.endpoint = "legacy" => i.event_type = NULL /\ ~i.hasData
     /\ ~i.parseable => i.event_type = NULL /\ ~i.hasData /\ ~i.fieldsOk
     /\ i.event_type # "dispute.created" => ~i.buyer /\ ~i.seller
     /\ i.event_type # "dispute.resolved" => i.thread_id = NULL
     /\ (i.endpoint = "webhook" /\ i.event_type # "listing.created") => ~i.fieldsOk
     /\ (i.endpoint = "webhook" /\ i.event_type \notin
           {"listing.created", "dispute.created", "dispute.resolved"})
          => i.category = NULL
     /\ (i.endpoint = "legacy" /\ ~i.fieldsOk) => i.category = NULL}

WithInputs(i) ==
  [IdleReq EXCEPT !.epoch = cmds, !.endpoint = i.endpoint, !.parseable = i.parseable,
                  !.authOk = i.authOk, !.event_type = i.event_type,
                  !.hasData = i.hasData, !.category = i.category,
                  !.fieldsOk = i.fieldsOk, !.buyer = i.buyer, !.seller = i.seller,
                  !.thread_id = i.thread_id]

----------------------------------------------------------------------------
(* app.post('/webhook') and app.post('/webhook/listing'), up to the first await *)

\* app.post('/webhook') without the !data half of its format check
WebhookNoDataCheck(rec) ==
  IF rec.event_type = NULL THEN Reject(rec, 400)
  ELSE IF rec.event_type \in {"listing.created", "dispute.created", "dispute.resolved"}
    THEN StartLoop(rec)
  ELSE IF rec.event_type \in {"listing.updated", "listing.status_changed",
                              "dispute.updated"}
    THEN RespondSuccess(rec)
  ELSE Reject(rec, 400)

\* app.post('/webhook') whose default case answers 400 without returning,
\* so that the success response after the switch is sent as well
WebhookUnknownFallsThrough(rec) ==
  IF rec.event_type = NULL \/ ~rec.hasData THEN Reject(rec, 400)
  ELSE IF rec.event_type \in {"listing.created", "dispute.created", "dispute.resolved"}
    THEN StartLoop(rec)
  ELSE IF rec.event_type \in {"listing.updated", "listing.status_changed",
                              "dispute.updated"}
    THEN RespondSuccess(rec)
  ELSE RespondSuccess(Reject(rec, 400))

\* app.post('/webhook') with handleListingUpdated and handleDisputeUpdated
\* notifying the configured channels as handleListingCreated does
WebhookUpdatesNotify(rec) ==
  IF rec.event_type = NULL \/ ~rec.hasData THEN Reject(rec, 400)
  ELSE IF rec.event_type \in {"listing.created", "dispute.created", "dispute.resolved",
                              "listing.updated", "listing.status_changed",
                              "dispute.updated"}
    THEN StartLoop(rec)
  ELSE Reject(rec, 400)

\* the body of app.post('/webhook') after the secret check
Webhook(rec) ==
  IF rec.event_type = NULL \/ ~rec.hasData THEN Reject(rec, 400)
  ELSE IF rec.event_type \in {"listing.created", "dispute.created", "dispute.resolved"}
    THEN StartLoop(rec)
  ELSE IF rec.event_type \in {"listing.updated", "listing.status_changed",
                              "dispute.updated"}
    THEN RespondSuccess(rec)
  ELSE Reject(rec, 400)

\* the body of app.post('/webhook/listing') after the secret check
WebhookListing(rec) ==
  IF ~rec.fieldsOk THEN Reject(rec, 400) ELSE StartLoop(rec)

\* a request arrives: express.json() parses the body (a body that is not JSON
\* is answered 400 by the parser and never reaches the route), then the route
\* checks the secret and runs its handler up to the first await
Receive(r, i) ==
  /\ req[r].pc = "idle"
  /\ ~secret => i.authOk
  /\ LET rec == WithInputs(i)
     IN req' = [req EXCEPT ![r] =
          IF ~rec.parseable THEN Reject(rec, 400)
          ELSE IF secret /\ ~rec.authOk THEN Reject(rec, 401)
          ELSE IF rec.endpoint = "webhook" THEN Webhook(rec)
          ELSE WebhookListing(rec)]
  /\ UNCHANGED <<config, secret, cmds, reply, threadSeq, handlers, file, embed>>

\* app.get('/health'): no secret check, no body; answers the number of keys
\* of the table, and Object.keys throws when the file holds null
Health(r) ==
  /\ req[r].pc = "idle"
  /\ LET rec == [IdleReq EXCEPT !.epoch = cmds, !.endpoint = "health", !.reads = 1]
     IN req' = [req EXCEPT ![r] =
          IF Unusable THEN Reject(rec, 500)
          ELSE [rec EXCEPT !.pc = "done", !.status = 200,
                           !.configuredChannels = Len(loadConfig),
                           !.responses = @ + 1]]
  /\ UNCHANGED <<config, secret, cmds, reply, threadSeq, handlers, file, embed>>

----------------------------------------------------------------------------
(* The awaits of the loops *)

CurGuild(rec) == rec.snap[rec.idx].guildId

\* how the attempt at the current target ended: op is the call that ended it
Outcome(rec, ok, op) ==
  [guildId |-> CurGuild(rec), channelId |-> rec.chan, ok |-> ok, op |-> op]

\* the listing a request carries: its category is enumerated; when its
\* required fields are present its price is the string "10", else it has none
ListingOf(rec) ==
  [price |-> IF rec.fieldsOk THEN Str(<<"1", "0">>) ELSE Absent,
   category |-> rec.category, description |-> Absent, created_at |-> NULL]

\* discordChannel.send({ embeds: [embed] }) of a listing: the channel and the
\* message handed to the gateway
ListingMessage(rec) ==
  [channelId |-> rec.chan,
   embed |-> ListingEmbed(IF Handler(rec) = "legacy" THEN "legacy" ELSE "unified",
                          ListingOf(rec), "t1")]

\* a catch block that leaves the loop: the first failure ends the dispatch
CatchAndStop(rec, op) ==
  LET r1 == [rec EXCEPT !.outcomes = Append(@, Outcome(rec, FALSE, op)),
                        !.errors = IF Handler(rec) = "legacy"
                                     THEN Append(@, [guildId |-> CurGuild(rec),
                                                     channelId |-> rec.chan])
                                     ELSE @]
  IN Finish(r1)

\* the catch block of a listing loop, then the next iteration: the legacy
\* endpoint pushes {guildId, channelId, error}, handleListingCreated and
\* handleDisputeResolved only log
CatchAndContinue(rec, op) ==
  LET r1 == [rec EXCEPT !.outcomes = Append(@, Outcome(rec, FALSE, op)),
                        !.errors = IF Handler(rec) = "legacy"
                                     THEN Append(@, [guildId |-> CurGuild(rec),
                                                     channelId |-> rec.chan])
                                     ELSE @]
  IN Continue(r1, rec.idx + 1)

\* the catch block of handleDisputeCreated rethrows; the switch of /webhook
\* catches it and answers 500 { success: false, error, event_type }
ThrowDispute(rec, op) ==
  Reject([rec EXCEPT !.outcomes = Append(@, Outcome(rec, FALSE, op))], 500)

\* what follows threads.create and each members.add
AfterThread(rec, stage) ==
  IF stage = "threadCreate" /\ rec.buyer THEN "addBuyer"
  ELSE IF stage \in {"threadCreate", "addBuyer"} /\ rec.seller THEN "addSeller"
  ELSE "threadSend"

\* await client.channels.fetch(channelId) returns.  built: whether the embed
\* could be built; handleListingCreated passes value: category to addFields,
\* which is null for a listing without a category, and the builder may reject it
FetchDone(r, outcome, built) ==
  /\ req[r].pc = "fetch"
  /\ outcome \in {"ok", "fail", "unsupported"}
  /\ outcome = "unsupported" => Handler(req[r]) = "disputeCreated"
  /\ ~built => /\ outcome = "ok"
               /\ Handler(req[r]) = "listing"
               /\ req[r].category = NULL
  /\ LET rec == req[r]
     IN req' = [req EXCEPT ![r] =
          IF Handler(rec) = "disputeCreated"
            THEN IF outcome = "fail" THEN ThrowDispute(rec, "fetch")
                 ELSE IF outcome = "unsupported"
                   THEN Continue([rec EXCEPT !.outcomes =
                                    Append(@, Outcome(rec, FALSE, "unsupported"))],
                                 rec.idx + 1)
                 ELSE [rec EXCEPT !.pc = "threadCreate"]
            ELSE IF outcome = "fail" THEN CatchAndContinue(rec, "fetch")
                 ELSE IF ~built THEN CatchAndContinue(rec, "embed")
                 ELSE IF Handler(rec) = "disputeResolved"
                   THEN [rec EXCEPT !.pc = "send"]
                 ELSE [rec EXCEPT !.pc = "send",
                                  !.messages = Append(@, ListingMessage(rec))]]
  /\ UNCHANGED <<config, secret, cmds, reply, threadSeq, handlers, file, embed>>

\* await discordChannel.send({ embeds: [embed] }) returns
SendDone(r, ok) ==
  /\ req[r].pc = "send"
  /\ LET rec == req[r]
     IN req' = [req EXCEPT ![r] =
          IF ok
            THEN Continue([rec EXCEPT !.sentCount = @ + 1,
                                      !.outcomes = Append(@, Outcome(rec, TRUE, "send"))],
                          rec.idx + 1)
            ELSE CatchAndContinue(rec, "send")]
  /\ UNCHANGED <<config, secret, cmds, reply, threadSeq, handlers, file, embed>>

\* await discordChannel.threads.create(...) returns
ThreadCreateDone(r, ok) ==
  /\ req[r].pc = "threadCreate"
  /\ LET rec == req[r]
     IN IF ok
          THEN /\ threadSeq' = threadSeq + 1
               /\ req' = [req EXCEPT ![r] =
                    [rec EXCEPT !.pc = AfterThread(rec, "threadCreate"),
                                !.thread = threadSeq + 1,
                                !.threads = Append(@,
                                   [thread_id |-> threadSeq + 1,
                                    channel_id |-> rec.chan,
                                    guild_id |-> CurGuild(rec)])]]
          ELSE /\ threadSeq' = threadSeq
               /\ req' = [req EXCEPT ![r] = ThrowDispute(rec, "threadCreate")]
  /\ UNCHANGED <<config, secret, cmds, reply, handlers, file, embed>>

\* thread.members.add for the buyer outside its own try: a failure reaches
\* the catch of the loop and is rethrown
AddBuyerDoneFatal(r, ok) ==
  /\ req[r].pc = "addBuyer"
  /\ LET rec == [req[r] EXCEPT !.addFailed = @ \/ ~ok,
                               !.adds = Append(@, [who |-> "buyer", ok |-> ok])]
     IN req' = [req EXCEPT ![r] =
          IF ok THEN [rec EXCEPT !.pc = AfterThread(rec, "addBuyer")]
          ELSE ThrowDispute(rec, "addBuyer")]
  /\ UNCHANGED <<config, secret, cmds, reply, threadSeq, handlers, file, embed>>

\* await thread.members.add(dispute.buyer_discord_id) returns or fails; the
\* failure is logged
AddBuyerDone(r, ok) ==
  /\ req[r].pc = "addBuyer"
  /\ req' = [req EXCEPT ![r].pc = AfterThread(req[r], "addBuyer"),
                         ![r].addFailed = @ \/ ~ok,
                         ![r].adds = Append(@, [who |-> "buyer", ok |-> ok])]
  /\ UNCHANGED <<config, secret, cmds, reply, threadSeq, handlers, file, embed>>

\* await thread.members.add(dispute.seller_discord_id) returns or fails
AddSellerDone(r, ok) ==
  /\ req[r].pc = "addSeller"
  /\ req' = [req EXCEPT ![r].pc = AfterThread(req[r], "addSeller"),
                         ![r].addFailed = @ \/ ~ok,
                         ![r].adds = Append(@, [who |-> "seller", ok |-> ok])]
  /\ UNCHANGED <<config, secret, cmds, reply, threadSeq, handlers, file, embed>>

\* the handler ending without its return value: the response to a dispute
\* whose thread was posted carries no result
ThreadSendDoneNoResult(r, ok) ==
  /\ req[r].pc = "threadSend"
  /\ LET rec == req[r]
     IN req' = [req EXCEPT ![r] =
          IF ok
            THEN RespondSuccess(
                   [rec EXCEPT !.outcomes = Append(@, Outcome(rec, TRUE, "threadSend"))])
            ELSE ThrowDispute(rec, "threadSend")]
  /\ UNCHANGED <<config, secret, cmds, reply, threadSeq, handlers, file, embed>>

\* await thread.send(...) returns: the handler returns the thread's
\* identifiers from inside the loop, or rethrows
ThreadSendDone(r, ok) ==
  /\ req[r].pc = "threadSend"
  /\ LET rec == req[r]
     IN req' = [req EXCEPT ![r] =
          IF ok
            THEN RespondSuccess(
                   [rec EXCEPT !.outcomes = Append(@, Outcome(rec, TRUE, "threadSend")),
                               !.result = <<[thread_id |-> rec.thread,
                                             channel_id |-> rec.chan,
                                             guild_id |-> CurGuild(rec)]>>])
            ELSE ThrowDispute(rec, "threadSend")]
  /\ UNCHANGED <<config, secret, cmds, reply, threadSeq, handlers, file, embed>>

----------------------------------------------------------------------------
(* Initial states and the next-state relation *)

\* the channel a guild's general entry holds in an initial table
GeneralOf(g) == IF g = "G1" THEN "A1" ELSE IF g = "G2" THEN "B1" ELSE "C1"

\* the channel a guild's category entries hold in an initial table
CategoryOf(g) == IF g = "G1" THEN "A2" ELSE IF g = "G2" THEN "B2" ELSE "C2"

\* the records config.json can hold for a guild when the process starts
InitEntries(g) ==
  [guildId : {g}, channelId : {NULL, GeneralOf(g)},
   categoryChannels : {[NoCategoryChannels EXCEPT !["wos_accounts"] = ch] :
                         ch \in {NULL, CategoryOf(g)}}]

\* the tables config.json can hold when the process starts: records of one,
\* two or three guilds; the keys of a table are in the order they were added
InitConfigs ==
  {<< >>}
    \cup {<<e>> : e \in UNION {InitEntries(g) : g \in Guilds}}
    \cup {<<e1, e2>> : e1 \in InitEntries("G1"), e2 \in InitEntries("G2")}
    \cup {<<e2, e1>> : e1 \in InitEntries("G1"), e2 \in InitEntries("G2")}
    \cup {<<e1, e2, e3>> : e1 \in InitEntries("G1"), e2 \in InitEntries("G2"),
                           e3 \in InitEntries("G3")}

Init ==
  /\ file \in FileKinds
  /\ config \in IF file = "table" THEN InitConfigs ELSE {<< >>}
  /\ secret \in BOOLEAN
  /\ req = [r \in Reqs |-> IdleReq]
  /\ cmds = 0
  /\ reply = NoReply
  /\ threadSeq = 0
  /\ handlers = [p \in Interactions |-> IdleHandler]
  /\ embed = NoEmbed

Command ==
  \/ \E g \in Guilds, c \in Categories \cup {NULL},
        hasChannel \in BOOLEAN, permitted \in BOOLEAN, saved \in BOOLEAN :
       \E ch \in ChannelsOf(g) : SetChannel(g, ch, c, hasChannel, permitted, saved)
  \/ \E g \in Guilds, c \in Categories \cup {NULL} : GetChannel(g, c)
  \/ \E g \in Guilds, c \in Categories, saved \in BOOLEAN :
       RemoveCategoryChannel(g, c, saved)
  \/ \E g \in Guilds, saved \in BOOLEAN : RemoveChannel(g, saved)

Step(r) ==
  \/ \E outcome \in {"ok", "fail", "unsupported"}, built \in BOOLEAN :
       FetchDone(r, outcome, built)
  \/ \E ok \in BOOLEAN : SendDone(r, ok)
  \/ \E ok \in BOOLEAN : ThreadCreateDone(r, ok)
  \/ \E ok \in BOOLEAN : AddBuyerDone(r, ok)
  \/ \E ok \in BOOLEAN : AddSellerDone(r, ok)
  \/ \E ok \in BOOLEAN : ThreadSendDone(r, ok)

\* the webhook endpoints on a table no command is changing
Next ==
  \/ \E r \in SeqReqs, i \in ReqInputs : Receive(r, i)
  \/ \E r \in SeqReqs : Step(r)
  \/ \E r \in SeqReqs : Health(r)

Spec == Init /\ [][Next]_vars

\* every gateway call that is awaited eventually returns or fails, so the
\* continuation of a suspended handler eventually runs
Fairness == \A r \in SeqReqs : WF_vars(Step(r))

\* the installations whose table holds at most two guilds
InitLive == Init /\ Len(config) <= 2

SpecLive == InitLive /\ [][Next]_vars /\ Fairness

\* two guilds are configured, the first with a category channel; no secret
InitTwo ==
  /\ Init
  /\ secret = FALSE
  /\ file = "table"
  /\ Len(config) = 2
  /\ config[1].guildId = "G1"
  /\ config[1].channelId # NULL
  /\ config[1].categoryChannels["wos_accounts"] # NULL
  /\ config[2].channelId # NULL
  /\ config[2].categoryChannels["wos_accounts"] = NULL

\* two webhook requests served at once: their handlers interleave at the awaits
NextTwo ==
  \/ \E r \in Reqs, i \in ReqInputs : Receive(r, i)
  \/ \E r \in Reqs : Step(r)

SpecTwo == InitTwo /\ [][NextTwo]_vars

\* the slash commands alone; no command reads the webhook secret
InitCmd == Init /\ secret = FALSE

NextCmd == Command

SpecCmd == InitCmd /\ [][NextCmd]_vars

\* slash commands handled while a webhook request is awaiting a gateway call
NextAll ==
  \/ Command
  \/ \E r \in SeqReqs, i \in ReqInputs : Receive(r, i)
  \/ \E r \in SeqReqs : Step(r)
  \/ \E r \in SeqReqs : Health(r)

SpecAll == Init /\ [][NextAll]_vars

\* a fresh installation: no config.json yet, no secret
InitConc ==
  /\ file = "missing"
  /\ config = << >>
  /\ secret = FALSE
  /\ req = [r \in Reqs |-> IdleReq]
  /\ cmds = 0
  /\ reply = NoReply
  /\ threadSeq = 0
  /\ handlers = [p \in Interactions |-> IdleHandler]
  /\ embed = NoEmbed

\* interactions handled concurrently: the segments of their handlers
\* interleave at the awaits
NextConc ==
  \/ \E p \in Interactions, g \in Guilds, c \in Categories \cup {NULL},
        hasChannel \in BOOLEAN, permitted \in BOOLEAN, saved \in BOOLEAN :
       \E ch \in ChannelsOf(g) :
         SetChannelBegin(p, g, ch, c, hasChannel, permitted, saved)
  \/ \E p \in Interactions, g \in Guilds, c \in Categories \cup {NULL} :
       GetChannelBegin(p, g, c)
  \/ \E p \in Interactions, g \in Guilds, c \in Categories \cup {NULL},
        saved \in BOOLEAN : RemoveChannelBegin(p, g, c, saved)
  \/ \E p \in Interactions, ok \in BOOLEAN : FetchChannelDone(p, ok)
  \/ \E p \in Interactions, ok \in BOOLEAN : ReplyDone(p, ok)
  \/ \E p \in Interactions, ok \in BOOLEAN : TestSendDone(p, ok)

SpecConc == InitConc /\ [][NextConc]_vars

----------------------------------------------------------------------------
(* The formatting of payloads drawn from bounded sets *)

MaxPriceLen == 3

PriceChars == {"0", "9", ".", "x"}

\* the texts of at most n characters over PriceChars
TextsUpTo(n) == UNION {[1..k -> PriceChars] : k \in 0..n}

\* the prices a listing payload carries: none, numbers, and strings that are
\* numbers, start with one, or hold none
Prices ==
  {Absent, Num(<<"0">>), Num(<<"1", "0">>), Num(<<"9", "9", ".", "9">>),
   Str(<<"1", "0">>), Str(<<"9", "9", ".", "9">>), Str(<<"1", ".", "2", "3", "4">>),
   Str(<<"1", ".", "2", "3", "9">>), Str(<<"a", "b", "c">>)}
    \cup {Str(t) : t \in TextsUpTo(MaxPriceLen)}

DescriptionLengths == {0, 1, 999, 1000, 1001, 1002}

\* a text of n characters, no two neighbours alike
TextOfLength(n) == [i \in 1..n |-> Digits[(i % 10) + 1]]

Descriptions == {Absent} \cup {Str(TextOfLength(n)) : n \in DescriptionLengths}

Moments == {"t1", "t2"}

Instants == {NULL, "2024-05-01T10:00:00Z"}

Listings ==
  [price : Prices, category : ReqCategories, description : Descriptions,
   created_at : Instants]

CreatedDisputes ==
  [party : {"buyer", "seller"}, category : ReqCategories,
   buyer : BOOLEAN, seller : BOOLEAN, created_at : Instants]

ResolvedDisputes ==
  [resolution : {NULL, "buyer", "seller", "refund", "partial"},
   resolver_username : {NULL, "mod"}, resolved_at : Instants]

\* the payloads waiting to be formatted; the legacy endpoint answers 400 to
\* a listing whose price is falsy and builds no message for it
Payloads ==
  {e \in {[NoEmbed EXCEPT !.kind = "listing", !.path = path, !.payload = listing] :
             path \in {"unified", "legacy"}, listing \in Listings} :
     e.path = "legacy" => ~Falsy(e.payload.price)}
    \cup {[NoEmbed EXCEPT !.kind = "disputeCreated", !.path = "unified",
                          !.payload = dispute] : dispute \in CreatedDisputes}
    \cup {[NoEmbed EXCEPT !.kind = "disputeResolved", !.path = "unified",
                          !.payload = dispute] : dispute \in ResolvedDisputes}

\* the listing message of the payload is built at the moment now
FormatListing(now, built) ==
  /\ embed.kind = "listing"
  /\ LET msg == ListingEmbed(embed.path, embed.payload, now)
     IN /\ Accepted(msg) => built
        /\ embed' = [embed EXCEPT !.formatted = TRUE, !.now = now,
                                   !.built = built, !.msg = msg]
  /\ UNCHANGED <<config, secret, req, cmds, reply, threadSeq, handlers, file>>

FormatDisputeCreated(now) ==
  /\ embed.kind = "disputeCreated"
  /\ embed' = [embed EXCEPT !.formatted = TRUE, !.now = now, !.built = TRUE,
                            !.msg = DisputeCreatedEmbed(embed.payload, now)]
  /\ UNCHANGED <<config, secret, req, cmds, reply, threadSeq, handlers, file>>

FormatDisputeResolved(now) ==
  /\ embed.kind = "disputeResolved"
  /\ embed' = [embed EXCEPT !.formatted = TRUE, !.now = now, !.built = TRUE,
                            !.msg = DisputeResolvedEmbed(embed.payload, now)]
  /\ UNCHANGED <<config, secret, req, cmds, reply, threadSeq, handlers, file>>

\* a payload arrives at a fresh installation
InitFmt ==
  /\ file = "missing"
  /\ config = << >>
  /\ secret = FALSE
  /\ req = [r \in Reqs |-> IdleReq]
  /\ cmds = 0
  /\ reply = NoReply
  /\ threadSeq = 0
  /\ handlers = [p \in Interactions |-> IdleHandler]
  /\ embed \in Payloads

\* the same payload is formatted again and again, at any moment
NextFmt ==
  \/ \E now \in Moments, built \in BOOLEAN : FormatListing(now, built)
  \/ \E now \in Moments : FormatDisputeCreated(now)
  \/ \E now \in Moments : FormatDisputeResolved(now)

SpecFmt == InitFmt /\ [][NextFmt]_vars

\* an installation with no config.json yet, or with a table that holds the
\* general channel of one guild; no secret
InitServe ==
  /\ Init
  /\ secret = FALSE
  /\ file \in {"missing", "table"}
  /\ file = "table" => /\ Len(config) = 1
                       /\ config[1].guildId = "G1"
                       /\ config[1].channelId # NULL

\* the endpoints serving a request while slash commands are handled
NextServe ==
  \/ cmds < MaxServeCmds /\ Command
  \/ \E r \in SeqReqs, i \in ReqInputs : Receive(r, i)
  \/ \E r \in SeqReqs : Step(r)
  \/ \E r \in SeqReqs : Health(r)

SpecServe == InitServe /\ [][NextServe]_vars

\* two configured guilds: a request is served while a command is handled
SpecRemove == InitTwo /\ [][NextServe]_vars

----------------------------------------------------------------------------
(* Vocabulary of the properties *)

\* no slash command was handled since the request arrived: the table is the
\* one the handler loaded
Stable(rec) == cmds = rec.epoch

\* the request passed the parser and the secret check
Admitted(rec) == rec.parseable /\ (secret => rec.authOk)

\* the request was accepted and handed to one of the dispatching handlers
Dispatched(rec) ==
  /\ rec.pc # "idle"
  /\ Admitted(rec)
  /\ Handler(rec) # "none"
  /\ rec.endpoint = "webhook" => rec.hasData
  /\ rec.endpoint = "legacy" => rec.fieldsOk

ConfigGuilds == {config[i].guildId : i \in 1..Len(config)}

AttemptChannels(rec) == {rec.attempts[k].channelId : k \in 1..Len(rec.attempts)}

AttemptGuilds(rec) == {rec.attempts[k].guildId : k \in 1..Len(rec.attempts)}

\* the guild's entry for the category when it has one, else its general entry
CategoryOrGeneral(guildId, category) ==
  IF CategoryEntry(config, guildId, category) # NULL
    THEN CategoryEntry(config, guildId, category)
    ELSE GeneralEntry(config, guildId)

\* the routing entry of a guild that serves the request: the general entry on
\* the legacy endpoint and for dispute.resolved, else the entry of the event's
\* category (or the general one it falls back to)
Serving(rec, guildId) ==
  IF Handler(rec) \in {"legacy", "disputeResolved"} THEN GeneralEntry(config, guildId)
  ELSE IF rec.category # NULL THEN CategoryOrGeneral(guildId, rec.category)
  ELSE GeneralEntry(config, guildId)

\* no gateway call was made for the request
NoGatewayCall(rec) ==
  rec.attempts = << >> /\ rec.outcomes = << >> /\ rec.threads = << >>

----------------------------------------------------------------------------
(* C1: as claimed, a lookup with a category returns the scope's entry for that
   category when one is configured and null otherwise, never the scope's
   general destination: for every table, guild and category, and for the
   channel /getchannel replies with. *)
C1_StrictLookup ==
  /\ \A g \in Guilds, c \in Categories :
       getChannelId(config, g, c) = CategoryEntry(config, g, c)
  /\ (reply.cmd = "getchannel" /\ reply.category # NULL)
       => reply.channelId = CategoryEntry(config, reply.guildId, reply.category)

(* C1, amended: a lookup with a category returns the scope's entry for that
   category when one is configured, otherwise the scope's general destination,
   and null only when the scope has neither. *)
C1_LookupFallsBack ==
  /\ \A g \in Guilds, c \in Categories :
       getChannelId(config, g, c) = CategoryOrGeneral(g, c)
  /\ (reply.cmd = "getchannel" /\ reply.category # NULL)
       => reply.channelId = CategoryOrGeneral(reply.guildId, reply.category)

\* /getchannel with a category answered with the general channel of a guild
\* that has no entry for the category
C1_Witness ==
  /\ reply.cmd = "getchannel"
  /\ reply.category # NULL
  /\ CategoryEntry(config, reply.guildId, reply.category) = NULL
  /\ reply.channelId # NULL
  /\ reply.channelId = GeneralEntry(config, reply.guildId)

(* C2: as claimed, every delivery attempt of a listing.created or
   dispute.created event that carries category c goes to the category-c entry
   of some scope, so a scope without an entry for c receives nothing. *)
C2_CategoryEntryOnly ==
  \A r \in Reqs :
    (Handler(req[r]) \in {"listing", "disputeCreated"}
       /\ req[r].category # NULL /\ Stable(req[r]))
      => \A k \in 1..Len(req[r].attempts) :
           /\ req[r].attempts[k].channelId # NULL
           /\ req[r].attempts[k].channelId =
                CategoryEntry(config, req[r].attempts[k].guildId, req[r].category)

(* C2, amended: every delivery attempt of a listing.created or dispute.created
   event that carries category c goes, for some scope, to that scope's
   category-c entry when it has one and to its general destination otherwise;
   a scope with neither receives nothing. *)
C2_CategoryOrGeneralOnly ==
  \A r \in Reqs :
    (Handler(req[r]) \in {"listing", "disputeCreated"}
       /\ req[r].category # NULL /\ Stable(req[r]))
      => \A k \in 1..Len(req[r].attempts) :
           /\ req[r].attempts[k].channelId # NULL
           /\ req[r].attempts[k].channelId =
                CategoryOrGeneral(req[r].attempts[k].guildId, req[r].category)

\* a finished dispatch of an event with a category that tried the category
\* entry of one guild and the general channel of a guild without that entry
C2_Witness ==
  \E r \in Reqs :
    /\ req[r].pc = "done"
    /\ Handler(req[r]) \in {"listing", "disputeCreated"}
    /\ req[r].category # NULL
    /\ \E k \in 1..Len(req[r].attempts) :
         /\ CategoryEntry(config, req[r].attempts[k].guildId, req[r].category) = NULL
         /\ req[r].attempts[k].channelId =
              GeneralEntry(config, req[r].attempts[k].guildId)
    /\ \E k \in 1..Len(req[r].attempts) :
         req[r].attempts[k].channelId =
           CategoryEntry(config, req[r].attempts[k].guildId, req[r].category)

(* C3: for a listing.created event without a category, every delivery attempt
   goes to the general destination of its scope, and once the dispatch has
   ended the destinations tried are exactly the general destinations
   configured in the table (none when there is none). *)
C3_GeneralTargetsExactly ==
  \A r \in Reqs :
    (Dispatched(req[r]) /\ Handler(req[r]) = "listing"
       /\ req[r].category = NULL /\ Stable(req[r]))
      => /\ \A k \in 1..Len(req[r].attempts) :
              /\ req[r].attempts[k].channelId # NULL
              /\ req[r].attempts[k].channelId =
                   GeneralEntry(config, req[r].attempts[k].guildId)
         /\ req[r].pc = "done" =>
              AttemptChannels(req[r]) =
                {GeneralEntry(config, g) : g \in ConfigGuilds} \ {NULL}

\* a finished category-less listing.created on a table where two guilds have
\* a general channel, one of them also a category channel, and a third guild
\* has a category channel only
C3_Witness ==
  \E r \in Reqs :
    /\ req[r].pc = "done"
    /\ Handler(req[r]) = "listing"
    /\ req[r].category = NULL
    /\ Len(req[r].attempts) = 2
    /\ \E g \in ConfigGuilds :
         GeneralEntry(config, g) = NULL /\ CategoryEntry(config, g, "wos_accounts") # NULL
    /\ \E g \in AttemptGuilds(req[r]) : CategoryEntry(config, g, "wos_accounts") # NULL

(* C4: a /webhook request that passed the secret check and whose event_type
   is missing or unknown, or whose data is absent, is answered 400 and causes
   no read of the routing table and no gateway call. *)
C4_BadEnvelopeRejected ==
  \A r \in Reqs :
    (req[r].pc # "idle" /\ req[r].endpoint = "webhook" /\ Admitted(req[r])
       /\ (req[r].event_type \notin EventTypes \/ ~req[r].hasData))
      => /\ req[r].pc = "done"
         /\ req[r].status = 400
         /\ ~req[r].success
         /\ req[r].reads = 0
         /\ NoGatewayCall(req[r])

\* an admitted request of a known dispatching kind without data, answered 400
\* on a table that has a destination for it
C4_Witness ==
  \E r \in Reqs :
    /\ req[r].pc = "done"
    /\ req[r].endpoint = "webhook"
    /\ Admitted(req[r])
    /\ req[r].event_type = "listing.created"
    /\ ~req[r].hasData
    /\ req[r].status = 400
    /\ \E g \in ConfigGuilds : GeneralEntry(config, g) # NULL

(* C5: with a webhook secret configured, a request to either endpoint whose
   x-webhook-secret header differs from it is answered 401, whatever its body,
   and causes no read of the routing table and no gateway call. *)
C5_WrongSecretIs401 ==
  \A r \in Reqs :
    (req[r].pc # "idle" /\ secret /\ ~req[r].authOk)
      => /\ req[r].pc = "done"
         /\ req[r].status = 401
         /\ req[r].reads = 0
         /\ NoGatewayCall(req[r])

\* the guilds whose routing entry serves the request
ServedGuilds(rec) == {g \in ConfigGuilds : Serving(rec, g) # NULL}

(* C6: in a listing.created dispatch, on /webhook as on /webhook/listing,
   every scope whose routing entry serves the event gets exactly one delivery
   attempt, at that entry's channel, whatever the outcomes at the other
   scopes: no scope is tried twice, and when the dispatch ends every served
   scope has been tried and every attempt has ended. *)
C6_EachTargetTriedOnce ==
  \A r \in Reqs :
    (Dispatched(req[r]) /\ Handler(req[r]) \in {"listing", "legacy"}
       /\ Stable(req[r]))
      => /\ \A k, l \in 1..Len(req[r].attempts) :
              k # l => req[r].attempts[k].guildId # req[r].attempts[l].guildId
         /\ \A k \in 1..Len(req[r].attempts) :
              /\ req[r].attempts[k].channelId # NULL
              /\ req[r].attempts[k].channelId =
                   Serving(req[r], req[r].attempts[k].guildId)
         /\ req[r].pc = "done" =>
              /\ AttemptGuilds(req[r]) = ServedGuilds(req[r])
              /\ Len(req[r].outcomes) = Len(req[r].attempts)

\* a finished listing dispatch with three targets whose first send failed and
\* whose second target could not be fetched, and whose third send succeeded
C6_Witness ==
  \E r \in Reqs :
    /\ req[r].pc = "done"
    /\ Handler(req[r]) \in {"listing", "legacy"}
    /\ Len(req[r].attempts) = 3
    /\ Len(req[r].outcomes) = 3
    /\ ~req[r].outcomes[1].ok /\ req[r].outcomes[1].op = "send"
    /\ ~req[r].outcomes[2].ok /\ req[r].outcomes[2].op = "fetch"
    /\ req[r].outcomes[3].ok

(* C7: in a dispute.created dispatch, a failure of thread creation or of the
   initial post at one target does not prevent the attempts at the remaining
   targets: when the dispatch has ended, every served scope has been tried. *)
C7_DisputeFailureIsolated ==
  \A r \in Reqs :
    (Dispatched(req[r]) /\ Handler(req[r]) = "disputeCreated"
       /\ req[r].pc = "done" /\ Stable(req[r])
       /\ \E k \in 1..Len(req[r].outcomes) :
            /\ ~req[r].outcomes[k].ok
            /\ req[r].outcomes[k].op \in {"threadCreate", "threadSend"})
      => AttemptGuilds(req[r]) = ServedGuilds(req[r])

(* C8: in a dispute.created dispatch in which no gateway call fails, a thread
   is created in every served scope, one per scope. *)
C8_ThreadInEveryScope ==
  \A r \in Reqs :
    (Dispatched(req[r]) /\ Handler(req[r]) = "disputeCreated"
       /\ req[r].pc = "done" /\ Stable(req[r])
       /\ ~req[r].addFailed
       /\ \A k \in 1..Len(req[r].outcomes) : req[r].outcomes[k].ok)
      => /\ {req[r].threads[k].guild_id : k \in 1..Len(req[r].threads)}
              = ServedGuilds(req[r])
         /\ Len(req[r].threads) = Cardinality(ServedGuilds(req[r]))

(* C9: for listing.created, dispute.created and dispute.resolved on /webhook,
   when at least one target was resolved and every delivery to the resolved
   targets failed (the platform rejected a call of each), the response is a
   failure (no success: true) that carries the errors. *)
C9_AllFailedIsFailure ==
  \A r \in Reqs :
    (Dispatched(req[r]) /\ req[r].endpoint = "webhook" /\ req[r].pc = "done"
       /\ req[r].attempts # << >>
       /\ \A k \in 1..Len(req[r].outcomes) :
            /\ ~req[r].outcomes[k].ok
            /\ req[r].outcomes[k].op \in {"fetch", "send", "threadCreate", "threadSend"})
      => /\ ~req[r].success
         /\ req[r].status >= 400
         /\ req[r].errorMsg

\* the {guildId, channelId} of the attempts that failed, in order
FailedTargets(outcomes) ==
  LET f == SelectSeq(outcomes, LAMBDA o : ~o.ok)
  IN [k \in 1..Len(f) |-> [guildId |-> f[k].guildId, channelId |-> f[k].channelId]]

(* C10: on /webhook/listing, when a dispatch has ended: sentCount is the
   number of targets whose send succeeded, the errors of the response are
   exactly the targets that failed, one entry each, the two add up to the
   number of targets tried, and with sentCount >= 1 the response is a success
   whose sentTo is sentCount. *)
C10_LegacyAggregation ==
  \A r \in Reqs :
    (Dispatched(req[r]) /\ Handler(req[r]) = "legacy" /\ req[r].pc = "done")
      => /\ req[r].sentCount =
              Cardinality({k \in 1..Len(req[r].outcomes) : req[r].outcomes[k].ok})
         /\ req[r].respErrors = FailedTargets(req[r].outcomes)
         /\ req[r].sentCount + Len(req[r].respErrors) = Len(req[r].attempts)
         /\ req[r].sentCount >= 1 =>
              /\ req[r].status = 200
              /\ req[r].success
              /\ req[r].sentTo = req[r].sentCount
         /\ req[r].success => req[r].sentTo = req[r].sentCount

\* three targets, two sends succeed and one fails: success, sentTo 2, one error
C10_Witness ==
  \E r \in Reqs :
    /\ req[r].pc = "done"
    /\ Handler(req[r]) = "legacy"
    /\ Len(req[r].attempts) = 3
    /\ req[r].success
    /\ req[r].sentTo = 2
    /\ Len(req[r].respErrors) = 1
    /\ req[r].respErrors[1].guildId = req[r].attempts[2].guildId

(* C11: when an accepted event resolves no target (no scope's routing entry
   serves it), no gateway call is made and the response is a success, on
   /webhook and on /webhook/listing alike, also when the table holds scopes
   that merely lack a matching entry. *)
C11_NoTargetIsSuccess ==
  \A r \in Reqs :
    (Dispatched(req[r]) /\ req[r].pc = "done" /\ Stable(req[r])
       /\ ServedGuilds(req[r]) = {})
      => /\ NoGatewayCall(req[r])
         /\ req[r].success
         /\ req[r].status = 200

(* C12: as claimed, every success response to a dispute.created event carries
   a result that identifies (thread_id, channel_id, guild_id) a thread created
   during that dispatch. *)
C12_SuccessCarriesThread ==
  \A r \in Reqs :
    (Dispatched(req[r]) /\ Handler(req[r]) = "disputeCreated"
       /\ req[r].pc = "done" /\ req[r].success)
      => /\ req[r].result # << >>
         /\ \E k \in 1..Len(req[r].threads) : req[r].threads[k] = req[r].result[1]

(* C12, amended: a success response to a dispute.created event carries a
   result exactly when a thread was created during that dispatch, and the
   result then identifies that thread, the only one the dispatch created; when
   no thread was created the success response carries no result. *)
C12_ResultIffThread ==
  \A r \in Reqs :
    (Dispatched(req[r]) /\ Handler(req[r]) = "disputeCreated"
       /\ req[r].pc = "done" /\ req[r].success)
      => /\ Len(req[r].threads) <= 1
         /\ Len(req[r].result) = Len(req[r].threads)
         /\ req[r].threads # << >> =>
              /\ req[r].result[1] = req[r].threads[1]
              /\ req[r].result[1].thread_id = threadSeq
              /\ req[r].result[1].channel_id =
                   req[r].attempts[Len(req[r].attempts)].channelId
              /\ req[r].result[1].guild_id =
                   req[r].attempts[Len(req[r].attempts)].guildId

\* a success response to a dispute.created event, sent after a first target
\* that cannot hold threads was skipped, carrying the thread of the second
C12_Witness ==
  \E r \in Reqs :
    /\ req[r].pc = "done"
    /\ Handler(req[r]) = "disputeCreated"
    /\ req[r].success
    /\ Len(req[r].attempts) = 2
    /\ req[r].result # << >>
    /\ req[r].result[1].guild_id = req[r].attempts[2].guildId
    /\ req[r].result[1].thread_id = threadSeq

(* C13: a dispute.resolved dispatch whose payload carries a thread identifier
   first attempts to post the resolution to that thread: its first delivery
   attempt is at the thread, and a channel is tried only after it. *)
C13_ThreadTriedFirst ==
  \A r \in Reqs :
    (Dispatched(req[r]) /\ Handler(req[r]) = "disputeResolved"
       /\ req[r].thread_id # NULL)
      => /\ req[r].attempts # << >>
         /\ req[r].attempts[1].channelId = req[r].thread_id

(* C14: in a dispute.created dispatch, a failed add of the buyer or of the
   seller to the new thread does not fail the dispatch: when it has ended,
   every party named in the payload has had its add attempted, the initial
   post was attempted after them, and if the post succeeded the response is a
   success that carries the thread's identifier. *)
C14_MemberAddNotFatal ==
  \A r \in Reqs :
    (Dispatched(req[r]) /\ Handler(req[r]) = "disputeCreated"
       /\ req[r].pc = "done"
       /\ \E k \in 1..Len(req[r].adds) : ~req[r].adds[k].ok)
      => /\ req[r].buyer => \E k \in 1..Len(req[r].adds) : req[r].adds[k].who = "buyer"
         /\ req[r].seller => \E k \in 1..Len(req[r].adds) : req[r].adds[k].who = "seller"
         /\ req[r].outcomes # << >>
         /\ req[r].outcomes[Len(req[r].outcomes)].op = "threadSend"
         /\ req[r].outcomes[Len(req[r].outcomes)].ok =>
              /\ req[r].success
              /\ req[r].status = 200
              /\ req[r].result = <<req[r].threads[1]>>

\* a dispute whose buyer could not be added to the thread: the seller was
\* added, the post went out and the response carries the thread
C14_Witness ==
  \E r \in Reqs :
    /\ req[r].pc = "done"
    /\ Handler(req[r]) = "disputeCreated"
    /\ Len(req[r].adds) = 2
    /\ req[r].adds[1].who = "buyer" /\ ~req[r].adds[1].ok
    /\ req[r].adds[2].who = "seller" /\ req[r].adds[2].ok
    /\ req[r].success
    /\ req[r].result # << >>

\* the channels handleListingCreated resolves, on the current table, for the
\* listing that rec carries
UnifiedTargets(rec) ==
  LET u == [rec EXCEPT !.endpoint = "webhook", !.event_type = "listing.created",
                       !.hasData = TRUE, !.snap = loadConfig]
  IN {Target(u, j) : j \in 1..Len(u.snap)} \ {NULL}

(* C15: a POST of a valid listing to /webhook/listing attempts deliveries at
   exactly the destinations that a POST to /webhook with event_type
   listing.created and the same listing as data resolves on the same table. *)
C15_LegacySameTargets ==
  \A r \in Reqs :
    (Dispatched(req[r]) /\ Handler(req[r]) = "legacy"
       /\ req[r].pc = "done" /\ Stable(req[r]))
      => AttemptChannels(req[r]) = UnifiedTargets(req[r])

(* C16: a listing.created event on /webhook whose listing lacks a required
   field (id, title or price) is answered with a client error and causes no
   gateway call, as on the legacy endpoint. *)
C16_UnifiedListingValidated ==
  \A r \in Reqs :
    (req[r].pc # "idle" /\ Admitted(req[r]) /\ req[r].endpoint = "webhook"
       /\ req[r].event_type = "listing.created" /\ req[r].hasData
       /\ ~req[r].fieldsOk)
      => /\ req[r].pc = "done"
         /\ req[r].status = 400
         /\ NoGatewayCall(req[r])

\* the destination a routing key (guild, category or NULL for the general
\* entry) holds
EntryAt(cfg, guildId, key) ==
  IF key = NULL THEN GeneralEntry(cfg, guildId) ELSE CategoryEntry(cfg, guildId, key)

\* the interactions whose command wrote the key
WritersOf(guildId, key) ==
  {p \in Interactions : /\ handlers[p].wrote
                        /\ handlers[p].guildId = guildId
                        /\ handlers[p].category = key}

\* what the last command applied to the key left in it: the channel of a
\* setchannel, nothing after a removechannel, nothing when no command wrote it
\* (the table of a fresh installation is empty)
LastWritten(guildId, key) ==
  IF WritersOf(guildId, key) = {} THEN NULL
  ELSE LET p == CHOOSE q \in WritersOf(guildId, key) :
                  \A o \in WritersOf(guildId, key) : handlers[o].seq <= handlers[q].seq
       IN IF handlers[p].cmd = "setchannel" THEN handlers[p].channelId ELSE NULL

(* C17: once all the commands handled concurrently have finished, every
   (scope, category) key of the table holds the value written by the last
   command applied to that key, so that the updates concurrent commands made
   to other keys are all present. *)
C17_NoUpdateLost ==
  (\A p \in Interactions : handlers[p].pc \in {"idle", "done"})
    => \A g \in Guilds, k \in Categories \cup {NULL} :
         EntryAt(config, g, k) = LastWritten(g, k)

\* the read-modify-write of a command is one synchronous segment: as long as
\* no scope was removed as a whole, every key holds its last written value
\* whatever the interleaving of the handlers
AtomicReadModifyWrite ==
  (/\ \A p \in Interactions : handlers[p].pc \in {"idle", "done"}
   /\ ~\E p \in Interactions : /\ handlers[p].cmd = "removechannel"
                               /\ handlers[p].category = NULL
                               /\ handlers[p].wrote)
    => \A g \in Guilds, k \in Categories \cup {NULL} :
         EntryAt(config, g, k) = LastWritten(g, k)

(* C18: after a /setchannel of channel d for (scope, optional category) that
   replied with its confirmation, a lookup for that scope and category
   returns d. *)
C18_ConfiguredThenFound ==
  (reply.cmd = "setchannel" /\ reply.ok)
    => getChannelId(config, reply.guildId, reply.category) = reply.channelId

\* a command was handled in this step and it was cmd
Handled(cmd) == cmds' = cmds + 1 /\ reply'.cmd = cmd

\* the routing keys other than the one the command handled in this step names
OtherKeys ==
  {k \in Guilds \X (Categories \cup {NULL}) :
     k # <<reply'.guildId, reply'.category>>}

(* C19: a /setchannel for (scope, optional category) changes that one entry
   at most: the scope's general destination (when a category is configured),
   its category entries (when the general destination is configured, and the
   other categories otherwise) and every entry of every other scope are as
   they were, and no other scope's record appears, disappears or moves. *)
C19_ConfigureFrame ==
  [][Handled("setchannel")
       => LET g == reply'.guildId
              c == reply'.category
              \* the entries of a record other than the one configured
              Rest(e) == [e EXCEPT !.channelId = IF c = NULL THEN NULL ELSE @,
                                   !.categoryChannels =
                                     [k \in Categories |-> IF k = c THEN NULL ELSE @[k]]]
          IN /\ Len(config') >= Len(config)
             /\ \A i \in 1..Len(config) :
                  IF config[i].guildId = g
                    THEN Rest(config'[i]) = Rest(config[i])
                    ELSE config'[i] = config[i]
             /\ \A i \in (Len(config) + 1)..Len(config') :
                  /\ ~HasGuild(config, g)
                  /\ Rest(config'[i]) = [guildId |-> g, channelId |-> NULL,
                                         categoryChannels |-> NoCategoryChannels]]_vars

\* a category destination was just configured for a scope that keeps its
\* general destination and its other category, next to a second scope
C19_Witness ==
  /\ reply.cmd = "setchannel"
  /\ reply.ok
  /\ reply.category = "pubg_accounts"
  /\ CategoryEntry(config, reply.guildId, "pubg_accounts") = reply.channelId
  /\ GeneralEntry(config, reply.guildId) # NULL
  /\ CategoryEntry(config, reply.guildId, "wos_accounts") # NULL
  /\ GeneralEntry(config, reply.guildId) # reply.channelId
  /\ \E g \in ConfigGuilds \ {reply.guildId} : GeneralEntry(config, g) # NULL

(* C20: a /removechannel deletes the targeted entry only: without a category
   it removes the scope's general destination and leaves its category
   destinations in place, with a category it leaves the general destination
   and the other categories in place, and the entries of other scopes are
   never touched. *)
C20_RemoveFrame ==
  [][Handled("removechannel")
       => \A k \in OtherKeys :
            EntryAt(config', k[1], k[2]) = EntryAt(config, k[1], k[2])]_vars

(* C21: a /removechannel replies that something was removed if and only if
   the entry it targets (the scope's general destination, or the destination
   of the given category) existed before the command, and when it replies
   that nothing was configured the table is unchanged. *)
C21_RemoveReportsExistence ==
  [][Handled("removechannel")
       => /\ reply'.ok <=>
               EntryAt(config, reply'.guildId, reply'.category) # NULL
          /\ ~reply'.ok => config' = config]_vars

(* C22: whatever config.json holds that is no table (no file, an unreadable
   file, a file that is not JSON, the JSON value null), every dispatch and
   every command behaves as with an empty table and raises no error: an
   accepted event is answered with a success and no gateway call, and no
   command handler throws. *)
C22_CorruptFileIsEmptyTable ==
  /\ \A r \in Reqs :
       (file # "table" /\ Dispatched(req[r]) /\ req[r].pc = "done")
         => /\ req[r].success
            /\ req[r].status = 200
            /\ NoGatewayCall(req[r])
  /\ ~reply.threw

\* C23: with a routing table whose only entry is the wos_accounts destination
\* of one scope, a listing.created event with category wos_accounts and price
\* "10" produces exactly one delivery attempt, to that destination, and the
\* message handed to it has the price field $10.00.
C23_OneAttemptWithPrice ==
  \A r \in Reqs :
    LET rec == req[r]
    IN (/\ Len(config) = 1
        /\ config[1].channelId = NULL
        /\ config[1].categoryChannels["wos_accounts"] # NULL
        /\ \A c \in Categories \ {"wos_accounts"} :
             config[1].categoryChannels[c] = NULL
        /\ Dispatched(rec)
        /\ rec.event_type = "listing.created"
        /\ rec.category = "wos_accounts"
        /\ rec.fieldsOk)
         => /\ Len(rec.attempts) = 1
            /\ \A k \in 1..Len(rec.attempts) :
                 rec.attempts[k].channelId = config[1].categoryChannels["wos_accounts"]
            /\ \A k \in 1..Len(rec.messages) :
                 /\ rec.messages[k].channelId
                      = config[1].categoryChannels["wos_accounts"]
                 /\ rec.messages[k].embed.price = <<"$", "1", "0", ".", "0", "0">>
            /\ (rec.pc = "done" /\ \E k \in 1..Len(rec.outcomes) :
                                     rec.outcomes[k].op = "send")
                 => Len(rec.messages) = 1

\* C23 happens: the listing was sent to the only destination with $10.00
C23_Witness ==
  \E r \in Reqs :
    /\ Len(config) = 1
    /\ config[1].channelId = NULL
    /\ config[1].categoryChannels["wos_accounts"] # NULL
    /\ req[r].event_type = "listing.created"
    /\ req[r].endpoint = "webhook"
    /\ req[r].category = "wos_accounts"
    /\ req[r].fieldsOk
    /\ req[r].pc = "done"
    /\ req[r].sentCount = 1
    /\ Len(req[r].attempts) = 1
    /\ Len(req[r].messages) = 1
    /\ req[r].messages[1].embed.price = <<"$", "1", "0", ".", "0", "0">>

\* C24 (as stated): for every listing description, the description field is
\* the description unchanged when its length is at most 1000, its first 997
\* characters followed by '...' when it is longer, and omitted when the
\* description is absent; the field never exceeds 1000 characters.
C24_DescriptionField ==
  (embed.kind = "listing" /\ embed.formatted)
    => LET d == embed.payload.description
           f == embed.msg.description
       IN /\ d.type = "absent" => f = Absent
          /\ (d.type = "string" /\ Len(d.text) <= 1000) => f = Str(d.text)
          /\ (d.type = "string" /\ Len(d.text) > 1000)
               => f = Str(SubSeq(d.text, 1, 997) \o <<".", ".", ".">>)
          /\ Len(f.text) <= 1000

\* C24 (amended): the description field is omitted when the description is
\* absent or empty; it is the description unchanged when its length is 1 to
\* 1000, and its first 997 characters followed by '...' when it is longer;
\* the field never exceeds 1000 characters.
C24_DescriptionFieldUnlessEmpty ==
  (embed.kind = "listing" /\ embed.formatted)
    => LET d == embed.payload.description
           f == embed.msg.description
       IN /\ (d.type = "absent" \/ d.text = << >>) => f = Absent
          /\ (d.type = "string" /\ Len(d.text) \in 1..1000) => f = Str(d.text)
          /\ (d.type = "string" /\ Len(d.text) > 1000)
               => f = Str(SubSeq(d.text, 1, 997) \o <<".", ".", ".">>)
          /\ Len(f.text) <= 1000

\* C24 happens: a description of 1001 characters was cut to 1000
C24_Witness ==
  /\ embed.kind = "listing"
  /\ embed.formatted
  /\ Len(embed.payload.description.text) = 1001
  /\ Len(embed.msg.description.text) = 1000
  /\ embed.msg.description.text[1000] = "."

\* C25: the listing price field is '$' followed by the price as a fixed
\* two-decimal value: "99.9" gives $99.90, and an absent or unparseable price
\* gives $0.00.
C25_PriceTwoDecimals ==
  (embed.kind = "listing" /\ embed.formatted)
    => LET p == embed.payload.price
           f == embed.msg.price
           n == Len(f)
       IN /\ n >= 5
          /\ f[1] = "$"
          /\ f[n - 2] = "."
          /\ \A k \in (2..n) \ {n - 2} : IsDigit(f[k])
          /\ p.text = <<"9", "9", ".", "9">> => f = <<"$", "9", "9", ".", "9", "0">>
          /\ (p.type = "absent" \/ parseFloat(p.text).nan)
               => f = <<"$", "0", ".", "0", "0">>

\* C26: when a listing carries no category, the category field of the listing
\* message is the literal N/A on the unified path as on the legacy endpoint,
\* and the message is accepted for delivery.
C26_NoCategoryIsNA ==
  (embed.kind = "listing" /\ embed.formatted /\ embed.payload.category = NULL)
    => /\ embed.msg.category = "N/A"
       /\ embed.built

\* C27: the dispute-resolved message selects its resolution text and colour
\* by a 4-way case over the resolution code: buyer gives favor of buyer in
\* blue, seller gives favor of seller in orange, refund gives refund in
\* green, any other value gives resolved in the default green.
C27_ResolutionCase ==
  (embed.kind = "disputeResolved" /\ embed.formatted)
    => LET code == embed.payload.resolution
           text == embed.msg.resolution
           green == embed.msg.color = "0x51CF66"
       IN /\ code = "buyer" => text = "favor of buyer" /\ ~green
          /\ code = "seller" => text = "favor of seller" /\ ~green
          /\ code = "refund" => text = "refund" /\ green
          /\ code \notin {"buyer", "seller", "refund"} => text = "resolved" /\ green

\* C28: message formatting is deterministic: formatting the same payload
\* again, at any later moment, yields the identical message, timestamp
\* included, whether or not the payload carries created_at / resolved_at.
C28_FormatDeterministic ==
  [][(/\ embed.formatted
      /\ embed'.formatted
      /\ embed'.kind = embed.kind
      /\ embed'.path = embed.path
      /\ embed'.payload = embed.payload)
       => embed'.msg = embed.msg]_vars

\* C29: a dispute.resolved event carrying category c is posted only to the
\* category-c destination of each scope, never to a scope's general
\* destination.
C29_ResolvedToCategoryOnly ==
  \A r \in Reqs :
    (/\ Dispatched(req[r])
     /\ Stable(req[r])
     /\ req[r].event_type = "dispute.resolved"
     /\ req[r].category # NULL)
      => \A k \in 1..Len(req[r].attempts) :
           /\ req[r].attempts[k].channelId
                = CategoryEntry(config, req[r].attempts[k].guildId, req[r].category)
           /\ req[r].attempts[k].channelId
                # GeneralEntry(config, req[r].attempts[k].guildId)

\* C30: no step of a webhook dispatch (any event kind, either endpoint), no
\* health request and no getchannel command changes the routing table or the
\* file that holds it, whatever the delivery outcomes; a step that changes
\* them is the handling of a setchannel or a removechannel command.
C30_OnlyCommandsWrite ==
  [][/\ (req' # req \/ Handled("getchannel")) => (config' = config /\ file' = file)
     /\ (config' # config \/ file' # file)
          => (Handled("setchannel") \/ Handled("removechannel"))]_vars

\* C30 happens: a dispatch tried a destination and ended, a getchannel command
\* was handled meanwhile, and the table is the one the dispatch loaded
C30_Witness ==
  \E r \in Reqs :
    /\ req[r].pc = "done"
    /\ req[r].outcomes # << >>
    /\ req[r].epoch = 0
    /\ cmds = 1
    /\ reply.cmd = "getchannel"
    /\ config # << >>
    /\ config = req[r].snap

\* C31: every webhook request that passes authentication eventually receives
\* a response, provided each gateway call eventually returns or fails: a
\* dispatch, once started, runs through its targets and is never left pending.
C31_EventuallyAnswered ==
  \A r \in SeqReqs :
    (req[r].pc # "idle" /\ Admitted(req[r]))
      ~> (req[r].pc = "done" /\ req[r].responses = 1)

\* C31 happens: a dispatch went through two targets and was answered
C31_Witness ==
  \E r \in SeqReqs :
    /\ Dispatched(req[r])
    /\ Len(req[r].outcomes) = 2
    /\ req[r].pc = "done"
    /\ req[r].responses = 1

\* C32: the response to a webhook request is sent only after every delivery
\* attempt of that dispatch has completed: once the response is sent no
\* gateway call of the dispatch is pending, and every attempt that was started
\* has ended.
C32_ResponseAfterAttempts ==
  \A r \in Reqs :
    req[r].responses > 0
      => /\ req[r].pc = "done"
         /\ Len(req[r].outcomes) = Len(req[r].attempts)
         /\ \A k \in 1..Len(req[r].attempts) :
              /\ req[r].outcomes[k].guildId = req[r].attempts[k].guildId
              /\ req[r].outcomes[k].channelId = req[r].attempts[k].channelId

\* C32 happens: a dispatch with two attempts, one of them failed, was answered
C32_Witness ==
  \E r \in Reqs :
    /\ req[r].responses = 1
    /\ Len(req[r].attempts) = 2
    /\ Len(req[r].outcomes) = 2
    /\ ~req[r].outcomes[1].ok
    /\ req[r].outcomes[2].ok

\* C34: no webhook request is ever answered twice: on every path through
\* /webhook and /webhook/listing at most one response is sent per request,
\* and a request that has ended was answered exactly once.
C34_AnsweredOnce ==
  \A r \in Reqs :
    /\ req[r].responses <= 1
    /\ req[r].pc = "done" <=> req[r].responses = 1

\* C34 happens: a dispute.created dispatch threw after its thread was created
\* and the request was answered once, with 500
C34_Witness ==
  \E r \in Reqs :
    /\ req[r].event_type = "dispute.created"
    /\ req[r].threads # << >>
    /\ req[r].pc = "done"
    /\ req[r].status = 500
    /\ req[r].responses = 1

\* C33: when two webhook requests are processed concurrently, each response's
\* counts, errors and thread result reflect only that request's own delivery
\* attempts: the count is the number of its own successful sends, the errors
\* are its own failed targets, the result is the thread it created itself,
\* and no thread belongs to both.
C33_OwnAttemptsOnly ==
  /\ \A r \in Reqs :
       (Dispatched(req[r]) /\ req[r].pc = "done")
         => /\ Len(req[r].outcomes) = Len(req[r].attempts)
            /\ \A k \in 1..Len(req[r].attempts) :
                 /\ req[r].outcomes[k].guildId = req[r].attempts[k].guildId
                 /\ req[r].outcomes[k].channelId = req[r].attempts[k].channelId
            /\ Handler(req[r]) # "disputeCreated"
                 => req[r].sentCount =
                      Cardinality({k \in 1..Len(req[r].outcomes) :
                                     req[r].outcomes[k].ok})
            /\ Handler(req[r]) = "legacy"
                 => /\ req[r].respErrors = FailedTargets(req[r].outcomes)
                    /\ req[r].success => req[r].sentTo = req[r].sentCount
                    /\ req[r].success <=>
                         (req[r].sentCount > 0 \/ req[r].attempts = << >>)
            /\ Handler(req[r]) = "disputeCreated"
                 => /\ Len(req[r].result) <= Len(req[r].threads)
                    /\ req[r].result # << >> => req[r].result[1] = req[r].threads[1]
  /\ \A r, q \in Reqs :
       r # q => \A k \in 1..Len(req[r].threads), j \in 1..Len(req[q].threads) :
                  req[r].threads[k].thread_id # req[q].threads[j].thread_id

\* C33 happens: two legacy requests were served at once; every send of the
\* first succeeded and every send of the second failed
C33_Witness ==
  /\ req["r1"].pc = "done"
  /\ req["r2"].pc = "done"
  /\ Handler(req["r1"]) = "legacy"
  /\ Handler(req["r2"]) = "legacy"
  /\ req["r1"].sentTo = 2
  /\ req["r2"].status = 500
  /\ Len(req["r2"].respErrors) = 2

\* C35: whenever a dispute.created dispatch creates a thread, the identifier
\* of that thread is returned to the caller in the webhook response, also
\* when the initial post into the thread fails.
C35_ThreadIdReturned ==
  \A r \in Reqs :
    (Handler(req[r]) = "disputeCreated" /\ req[r].pc = "done")
      => \A k \in 1..Len(req[r].threads) :
           \E j \in 1..Len(req[r].result) :
             req[r].result[j].thread_id = req[r].threads[k].thread_id

\* the channels the table holds for a guild
ConfiguredFor(guildId) ==
  ({GeneralEntry(config, guildId)}
     \cup {CategoryEntry(config, guildId, c) : c \in Categories}) \ {NULL}

\* C36: once a removechannel command for a scope has completed, no delivery
\* attempt that starts afterwards targets the destination that was removed,
\* the remaining attempts of a dispatch already in progress included: an
\* attempt that starts at that scope goes to a channel the table still holds.
C36_NoAttemptAfterRemove ==
  [][\A r \in Reqs :
       (/\ Len(req'[r].attempts) = Len(req[r].attempts) + 1
        /\ reply.cmd = "removechannel"
        /\ reply.ok
        /\ reply.guildId = req'[r].attempts[Len(req'[r].attempts)].guildId)
         => req'[r].attempts[Len(req'[r].attempts)].channelId
              \in ConfiguredFor(reply.guildId)]_vars

\* C37: listing.updated, listing.status_changed and dispute.updated events
\* never read the routing table and never call the delivery gateway; each is
\* answered with a success response.
C37_UpdatesAreNoOps ==
  \A r \in Reqs :
    (/\ req[r].pc # "idle"
     /\ Admitted(req[r])
     /\ req[r].endpoint = "webhook"
     /\ req[r].hasData
     /\ req[r].event_type \in {"listing.updated", "listing.status_changed",
                               "dispute.updated"})
      => /\ req[r].pc = "done"
         /\ req[r].status = 200
         /\ req[r].success
         /\ req[r].responses = 1
         /\ req[r].reads = 0
         /\ req[r].result = << >>
         /\ NoGatewayCall(req[r])

\* C37 happens: a dispute.updated event was answered with success on a table
\* that holds three guilds with general channels
C37_Witness ==
  \E r \in Reqs :
    /\ req[r].event_type = "dispute.updated"
    /\ req[r].hasData
    /\ req[r].pc = "done"
    /\ req[r].success
    /\ Len(config) = 3
    /\ \A k \in 1..3 : config[k].channelId # NULL

\* C38: a setchannel command that names no channel, or names a channel in
\* which the bot lacks the send-messages permission, is refused with an error
\* reply and leaves the routing table and its file unchanged; a setchannel
\* that writes the table is one whose checks have passed.
C38_RefusedSetChannelWritesNothing ==
  [][Handled("setchannel")
       => /\ (~reply'.ok /\ ~reply'.threw)
               => /\ config' = config
                  /\ file' = file
                  /\ reply'.channelId = NULL
          /\ (config' # config \/ file' # file)
               => /\ reply'.ok
                  /\ reply'.channelId # NULL
                  /\ getChannelId(config', reply'.guildId, reply'.category)
                       = reply'.channelId]_vars

\* C38 happens: a setchannel was refused on a table that a first setchannel
\* had written
C38_Witness ==
  /\ cmds = 2
  /\ reply.cmd = "setchannel"
  /\ ~reply.ok
  /\ ~reply.threw
  /\ file = "table"
  /\ config # << >>
  /\ \E k \in 1..Len(config) : config[k].guildId = reply.guildId

====
